---- MODULE Spec2Model ----
(***************************************************************************)
(* GenericButton (src/components/GenericButton.js): a button wrapper that  *)
(* exposes its pieces {Button, track, style} to a function child, or       *)
(* renders its Button around a plain child.  The model covers one mounted  *)
(* GenericButton: its renders (with React's reconciliation of the          *)
(* component instances below it and their useCallback slots) and the       *)
(* invocation of the handlers of the element it rendered.                  *)
(*                                                                         *)
(* A property bag is a function from PropNames to "options": <<>> when the *)
(* property is not in the object, <<v>> when it is there with value v.     *)
(***************************************************************************)
EXTENDS Integers, Sequences, FiniteSets, TLC

VARIABLES
  mounted,      \* has GenericButton rendered at least once
  gbProps,      \* the props of the latest render of GenericButton
  root,         \* option: the component instance right below GenericButton
  nested,       \* option: the Button instance below a function child
  out,          \* the host element of the latest render
  bundle,       \* option: the props object the function child was called with
  childCalls,   \* how many times the latest render called the function child
  displayName,  \* option: the displayName of the function child of the latest render
  sharedStyle,  \* the module-level style object of GenericButton.js
  nextId,       \* allocation stamp of the next function object
  fired,        \* option: the handler being invoked and its arguments
  trace,        \* console emissions and callback calls of that invocation
  result,       \* option: what the invocation returned or threw
  thrown,       \* option: the error the latest render ended with
  refs,         \* option: which objects the members of the latest bundle are
  build,        \* the React build that runs: "development" or "production"
  acProps,      \* option: the props of the latest render of Activable
  inner,        \* option: the instance of Activable's child
  received,     \* option: the props Activable's child was called with
  innerName,    \* option: the displayName of Activable's child
  source,       \* the text String(callback) that stringify is applied to
  printed,      \* option: the text stringify made of source
  appMounted,   \* has App rendered
  active,       \* App's state, as of its latest render
  pending,      \* the updates of active queued since that render
  clicks,       \* clicks on the toggle button so far
  loading,      \* the image component's state, as of its latest render
  loadPending,  \* has setLoading been called since that render
  images,       \* images created
  listeners,    \* load listeners registered
  effectDue,    \* is the image component's effect still to run
  effectRan,    \* has it run in this instance
  tree,         \* what each GenericButton of App has rendered
  loaderKind,   \* the image component in use: "Input" or "Image"
  loaderHooks,  \* the useCallback slots of Image
  hookCalls,    \* the hooks each component called in its latest render
  memoHooks     \* the useCallback slot of the GenericButton that memoizes Button

renderVars == <<mounted, gbProps, root, nested, out, bundle, childCalls, displayName,
                sharedStyle, nextId, thrown, refs, build, memoHooks>>

activableVars == <<acProps, inner, received, innerName>>

eventVars == <<fired, trace, result>>

textVars == <<source, printed>>

appVars == <<appMounted, active, pending, clicks, loading, loadPending, images,
             listeners, effectDue, effectRan, tree, loaderKind, loaderHooks, hookCalls>>

vars == <<renderVars, activableVars, eventVars, textVars, appVars>>

(***************************************************************************)
(* Bounds.                                                                 *)
(***************************************************************************)
NumCallbacks == 2   \* distinct callback objects a caller can pass
MaxRenders == 2     \* renders of GenericButton in one behaviour
MaxLen == 3         \* characters in the text of a written function
MaxClicks == 3      \* clicks on the toggle button of App
MaxAppRenders == 3  \* renders of App or of its image component

(***************************************************************************)
(* Function references.  kind "callback": a caller's function, id its      *)
(* identity; kind "undefined": the value undefined; kind "tracked": the    *)
(* arrow function made in track, id its allocation stamp and cb the        *)
(* callback it closes over (0 for undefined); kind "track": the            *)
(* module-level function track.                                            *)
(***************************************************************************)
Undef == [kind |-> "undefined", id |-> 0, cb |-> 0]

Callback(i) == [kind |-> "callback", id |-> i, cb |-> 0]

Callbacks == {Callback(i) : i \in 1..NumCallbacks}

TrackRef == [kind |-> "track", id |-> 0, cb |-> 0]

CbKey(f) == IF f.kind = "callback" THEN f.id ELSE 0

CbOf(w) == IF w.cb = 0 THEN Undef ELSE Callback(w.cb)

(***************************************************************************)
(* Source text of a function, as String(callback) gives it: a sequence of  *)
(* characters, with LF, CR, SP and TAB the white-space characters.         *)
(***************************************************************************)
LineBreaks == {"LF", "CR"}

WhiteSpace == {"LF", "CR", "SP", "TAB"}

\* The arrow functions in the components of the demo: App's
\* toggleActiveness, the onClick of Simple, ClickMe and CloseModal, and the
\* three handlers of the image input.
AppSources == 7

\* Which arrow function of the source a callback object was made from: a
\* render makes AppSources new objects, one from each.
SourceOf(id) == ((id - 1) % AppSources) + 1

\* A function whose text is the one held in source.
Written == [kind |-> "written", id |-> 0, cb |-> 0]

SourceText(f) ==
  CASE f.kind = "callback" ->
         <<"(", ")", "SP", "=", ">", "LF", "SP", "SP", "f", ToString(SourceOf(f.id)), "(", ")">>
    [] f.kind = "written" -> source
    [] OTHER -> <<"undefined">>

RECURSIVE DropLineBreaks(_)
DropLineBreaks(s) ==
  IF s = <<>> THEN <<>>
  ELSE IF Head(s) \in LineBreaks THEN DropLineBreaks(Tail(s))
  ELSE <<Head(s)>> \o DropLineBreaks(Tail(s))

RECURSIVE CollapseSpace(_)
CollapseSpace(s) ==
  IF s = <<>> THEN <<>>
  ELSE IF Head(s) \in WhiteSpace
    THEN IF Len(s) > 1 /\ s[2] \in WhiteSpace
           THEN CollapseSpace(Tail(s))
           ELSE <<"SP">> \o CollapseSpace(Tail(s))
    ELSE <<Head(s)>> \o CollapseSpace(Tail(s))

stringify(callback) == CollapseSpace(DropLineBreaks(SourceText(callback)))

(***************************************************************************)
(* JavaScript values a callback can return, by their literal.              *)
(***************************************************************************)
Results == {"undefined", "0", "false", "''", "'X'"}

Falsy == {"undefined", "0", "false", "''", "null", "NaN"}

Truthy(v) == v \notin Falsy

\* What one call of a caller's function does: return a value or throw.
Outcomes == [threw : {FALSE}, val : Results] \cup {[threw |-> TRUE, val |-> "Error"]}

TypeError == [threw |-> TRUE, val |-> "TypeError"]

ArgLists == {<<>>, <<"event">>, <<"a", "b">>}

NoOutcome == [threw |-> FALSE, val |-> ""]

\* console.log of a text.
LogEvent(text) ==
  [ev |-> "log", text |-> text, cb |-> 0, args |-> <<>>, did |-> NoOutcome]

\* A call f(...args) of a caller's function, and what it did.
CallEvent(f, args, o) ==
  [ev |-> "call", text |-> <<>>, cb |-> f.id, args |-> args, did |-> o]

\* print: one console.log, whose value (undefined) is the value of print.
print(string) == [events |-> <<LogEvent(string)>>, val |-> "undefined"]

\* callback(...params): a TypeError when callback is no function.
CallFn(f, params, o) ==
  IF f.kind = "callback"
    THEN [events |-> <<CallEvent(f, params, o)>>, outcome |-> o]
    ELSE [events |-> <<>>, outcome |-> TypeError]

\* Mutant: callback(...params) || print(stringify(callback))
TrackedCallFirst(callback, params, o) ==
  LET c == CallFn(callback, params, o) IN
  IF c.outcome.threw \/ Truthy(c.outcome.val)
    THEN c
    ELSE LET p == print(stringify(callback)) IN
         [events |-> c.events \o p.events, outcome |-> [threw |-> FALSE, val |-> p.val]]

\* Mutant: print(stringify(callback)) && callback(...params)
TrackedAnd(callback, params, o) ==
  LET p == print(stringify(callback)) IN
  IF ~Truthy(p.val)
    THEN [events |-> p.events, outcome |-> [threw |-> FALSE, val |-> p.val]]
    ELSE LET c == CallFn(callback, params, o) IN
         [events |-> p.events \o c.events, outcome |-> c.outcome]

\* The arrow function of track: print(stringify(callback)) || callback(...params)
Tracked(callback, params, o) ==
  LET p == print(stringify(callback)) IN
  IF Truthy(p.val)
    THEN [events |-> p.events, outcome |-> [threw |-> FALSE, val |-> p.val]]
    ELSE LET c == CallFn(callback, params, o) IN
         [events |-> p.events \o c.events, outcome |-> c.outcome]

\* Calling any function reference with params.
Apply(f, params, o) ==
  IF f.kind = "tracked" THEN Tracked(CbOf(f), params, o) ELSE CallFn(f, params, o)

(***************************************************************************)
(* Style objects: a function from StyleKeys to the value of the key, ""    *)
(* when the object does not have the key.                                  *)
(***************************************************************************)
StyleKeys == {"border", "borderRadius", "cursor", "display", "fontSize", "margin",
              "padding", "background"}

style == [k \in StyleKeys |->
            CASE k = "border" -> "solid 1px black"
              [] k = "borderRadius" -> "5px"
              [] k = "cursor" -> "pointer"
              [] k = "display" -> "block"
              [] k = "fontSize" -> "20px"
              [] k = "margin" -> "20px 0"
              [] k = "padding" -> "10px"
              [] OTHER -> ""]

EmptyStyle == [k \in StyleKeys |-> ""]

\* { ...a, ...b } on style objects.
StyleSpread(a, b) == [k \in StyleKeys |-> IF b[k] # "" THEN b[k] ELSE a[k]]

Blue == [EmptyStyle EXCEPT !["background"] = "blue"]

Green == [EmptyStyle EXCEPT !["background"] = "green"]

\* Mutant: Object.assign(style, own): the shared object itself is changed.
DeriveInPlace(base, own) ==
  [made |-> StyleSpread(base, own), base |-> StyleSpread(base, own)]

\* { ...style, ...own }: the object made, and the shared one, which is only
\* read.
Derive(base, own) == [made |-> StyleSpread(base, own), base |-> base]

(***************************************************************************)
(* `${parseInt(style.fontSize, 10) / 2}px`.  A text is taken apart into    *)
(* its characters to be parsed, and the number is written out again.       *)
(***************************************************************************)
DigitChars == {"0", "1", "2", "3", "4", "5", "6", "7", "8", "9"}

DigitValue(ch) ==
  CASE ch = "0" -> 0 [] ch = "1" -> 1 [] ch = "2" -> 2 [] ch = "3" -> 3
    [] ch = "4" -> 4 [] ch = "5" -> 5 [] ch = "6" -> 6 [] ch = "7" -> 7
    [] ch = "8" -> 8 [] ch = "9" -> 9

RECURSIVE Join(_)
Join(chars) == IF chars = <<>> THEN "" ELSE Head(chars) \o Join(Tail(chars))

\* The font sizes a style of the demo can hold, character by character.
FontSizes ==
  { <<"2", "0", "p", "x">>, <<"1", "0", "p", "x">>, <<"5", "p", "x">>,
    <<"2", ".", "5", "p", "x">>, <<"p", "x">> }

Characters(text) == CHOOSE t \in FontSizes : Join(t) = text

RECURSIVE LeadingDigits(_, _, _)
LeadingDigits(chars, radix, acc) ==
  IF chars = <<>> \/ Head(chars) \notin DigitChars
    THEN acc
    ELSE LeadingDigits(Tail(chars), radix, radix * acc + DigitValue(Head(chars)))

\* parseInt(text, radix) of a text that starts with a digit.
parseInt(text, radix) == LeadingDigits(Characters(text), radix, 0)

\* Mutant: the font size is kept.
HalfPxKept(text) == text

\* `${parseInt(text, 10) / 2}px`: NaN when text starts with no digit, a
\* fraction when the number is odd.
HalfPx(text) ==
  LET chars == Characters(text) IN
  IF chars = <<>> \/ Head(chars) \notin DigitChars
    THEN "NaNpx"
    ELSE LET n == parseInt(text, 10)
         IN IF n % 2 = 0 THEN ToString(n \div 2) \o "px"
                         ELSE ToString(n \div 2) \o ".5px"

(***************************************************************************)
(* Property bags.                                                          *)
(***************************************************************************)
PropNames == {"onClick", "onMouseOver", "onMouseOut", "style", "disabled", "children"}

HandlerNames == {"onClick", "onMouseOver", "onMouseOut"}

EmptyBag == [k \in PropNames |-> <<>>]

Has(bag, k) == bag[k] # <<>>

\* Mutant: the object spread first keeps its properties.
SpreadUnderWins(under, over) ==
  [k \in PropNames |-> IF Has(under, k) THEN under[k] ELSE over[k]]

\* { ...under, ...over }: a property of over replaces the one of under.
Spread(under, over) == [k \in PropNames |-> IF Has(over, k) THEN over[k] ELSE under[k]]

(***************************************************************************)
(* Children of GenericButton.  kind "node": a renderable value, content    *)
(* its text.  The other kinds are function children:                       *)
(*   "button"  returns <Button {...given}>content</Button> (ClickMe,       *)
(*             Simple, CloseModal), given the properties it chooses;       *)
(*   "plain"   returns a paragraph and uses only style (Input, loading);   *)
(*   "input"   returns an image input whose three handlers are             *)
(*             track(cbs[i]) (Input, loaded).                              *)
(* fresh says whether the caller makes the function anew for this render   *)
(* (an inline arrow function) or passes the same function object every     *)
(* time (a memoized or module-level function).                             *)
(***************************************************************************)
InputTrackCalls == 3

\* What a "button" child gives to Button besides the content: style none,
\* the shared style spread under its own ("spread") or only its own
\* ("replace"); disabled; an onClick of its own.
Given(styleMode, disabled, ownClick) ==
  [styleMode |-> styleMode, disabled |-> disabled, ownClick |-> ownClick]

NoneGiven == Given("none", <<>>, <<>>)

GivenSet ==
  { NoneGiven,
    Given("spread", <<>>, <<>>),
    Given("spread", <<TRUE>>, <<>>),
    Given("spread", <<FALSE>>, <<>>),
    Given("replace", <<>>, <<>>),
    Given("none", <<>>, <<Callback(1)>>),
    Given("replace", <<TRUE>>, <<Callback(1)>>) }

Node(text) ==
  [kind |-> "node", fresh |-> FALSE, content |-> text, given |-> NoneGiven,
   cbs |-> <<>>]

Nodes == {Node(t) : t \in {"Go", "5", "null", "<strong>"}}

ButtonChildren ==
  [kind : {"button"}, fresh : BOOLEAN, content : {"Go"}, given : GivenSet,
   cbs : {<<>>}]

PlainChildren ==
  [kind : {"plain"}, fresh : BOOLEAN, content : {"Loading image..."},
   given : {NoneGiven}, cbs : {<<>>}]

InputChildren ==
  [kind : {"input"}, fresh : BOOLEAN, content : {""}, given : {NoneGiven},
   cbs : [1..InputTrackCalls -> Callbacks]]

\* The props a caller can give GenericButton: any onClick and enhancement
\* around a node or a "button" child; nothing but the child around a
\* "plain" or an "input" child (as Input does).
GBProps ==
  [children : {<<>>} \cup {<<c>> : c \in Nodes \cup ButtonChildren},
   onClick : {<<>>} \cup {<<f>> : f \in Callbacks},
   style : {<<>>, <<Blue>>},
   disabled : {<<>>, <<TRUE>>, <<FALSE>>}]
  \cup
  [children : {<<c>> : c \in PlainChildren \cup InputChildren},
   onClick : {<<>>}, style : {<<>>}, disabled : {<<>>}]

NoProps == [children |-> <<>>, onClick |-> <<>>, style |-> <<>>, disabled |-> <<>>]

(***************************************************************************)
(* React: component instances and their hooks.  An instance is             *)
(* [type, hooks]: the function object it renders and its useCallback       *)
(* slots [fn, dep].                                                        *)
(***************************************************************************)
TypeOf(f) == [kind |-> f.kind, id |-> f.id]

\* Mutant: every function child of a kind is one and the same object.
ChildTypeStable(c, id) == [kind |-> c.kind, id |-> 0]

\* The function object a function child is: the caller's one object of
\* that kind (id 0), or a new one; for a "loader" child the object its
\* component passes (ref).
ChildType(c, id) ==
  [kind |-> c.kind,
   id |-> IF c.kind = "loader" THEN c.ref ELSE IF c.fresh THEN id ELSE 0]

\* The hooks an element of this type starts its render with: those of the
\* instance at its position when that instance has the same type (update),
\* none otherwise (the old instance is unmounted and a new one mounted).
Reconcile(inst, type) ==
  IF inst # <<>> /\ inst[1].type = type THEN inst[1].hooks ELSE <<>>

\* Mutant: no memo, a new function on every call.
useCallbackNoMemo(hooks, i, fn, dep) == [fn |-> fn, dep |-> dep]

\* Mutant: the dependency is not compared, the first function is kept.
useCallbackNoDeps(hooks, i, fn, dep) ==
  IF i <= Len(hooks) THEN hooks[i] ELSE [fn |-> fn, dep |-> dep]

\* useCallback(fn, [dep]) as hook number i of an instance.
useCallback(hooks, i, fn, dep) ==
  IF i <= Len(hooks) /\ hooks[i].dep = dep
    THEN hooks[i]
    ELSE [fn |-> fn, dep |-> dep]

\* track(callback) as hook number i; id stamps the arrow function it makes.
track(hooks, i, id, callback) ==
  useCallback(hooks, i, [kind |-> "tracked", id |-> id, cb |-> CbKey(callback)],
              callback)

\* Mutant: any child that is given counts as a component.
isComponentAnyChild(children) == children # <<>>

\* Mutant: a child that is not given counts as a component.
isComponentUnlessNode(children) == children = <<>> \/ children[1].kind # "node"

isComponent(children) == children # <<>> /\ children[1].kind # "node"

\* const { children, onClick, ...enhancement } = props
onClickOf(P) == IF P.onClick = <<>> THEN Undef ELSE P.onClick[1]

enhancementOf(P) ==
  [k \in PropNames |->
     IF k \in DOMAIN P /\ k \notin {"children", "onClick"} THEN P[k] ELSE <<>>]

\* The Button function object one render of GenericButton makes, with the
\* onClick and enhancement it closes over.
ButtonFn(id, onClick, enhancement) ==
  [kind |-> "Button", id |-> id, onClick |-> onClick, enhancement |-> enhancement]

\* Mutant: {...enhancement} spread before {...props}.
ButtonPropsLast(B, props, hooks, id, base) ==
  LET slot == track(hooks, 1, id, B.onClick)
      own == [EmptyBag EXCEPT !["onClick"] = <<slot.fn>>, !["style"] = <<base>>]
  IN [hooks |-> <<slot>>,
      el |-> [tag |-> "button",
              props |-> Spread(Spread(own, B.enhancement), props)]]

\* Mutant: a style given to Button is merged over the shared style.
ButtonMergingStyle(B, props, hooks, id, base) ==
  LET slot == track(hooks, 1, id, B.onClick)
      own == [EmptyBag EXCEPT !["onClick"] = <<slot.fn>>, !["style"] = <<base>>]
      merged == IF Has(props, "style")
                  THEN [props EXCEPT !["style"] = <<StyleSpread(base, props["style"][1])>>]
                  ELSE props
  IN [hooks |-> <<slot>>,
      el |-> [tag |-> "button",
              props |-> Spread(Spread(own, merged), B.enhancement)]]

\* Mutant: the tracked handler is set after {...props}.
ButtonHandlerLast(B, props, hooks, id, base) ==
  LET slot == track(hooks, 1, id, B.onClick)
      own == [EmptyBag EXCEPT !["style"] = <<base>>]
      handler == [EmptyBag EXCEPT !["onClick"] = <<slot.fn>>]
  IN [hooks |-> <<slot>>,
      el |-> [tag |-> "button",
              props |-> Spread(Spread(Spread(own, props), handler), B.enhancement)]]

\* Rendering Button (B) with props in an instance whose hooks are given.
Button(B, props, hooks, id, base) ==
  LET slot == track(hooks, 1, id, B.onClick)
      own == [EmptyBag EXCEPT !["onClick"] = <<slot.fn>>, !["style"] = <<base>>]
  IN [hooks |-> <<slot>>,
      el |-> [tag |-> "button",
              props |-> Spread(Spread(own, props), B.enhancement)]]

\* The style properties a "button" child adds to the shared style: those
\* of ClickMe, of Simple ("green") and of CloseModal ("orange").
OwnStyle(c, pieces) ==
  CASE c.given.styleMode = "green" -> Green
    [] c.given.styleMode = "orange" ->
         [EmptyStyle EXCEPT !["fontSize"] = HalfPx(pieces.style["fontSize"]),
                            !["background"] = "orange"]
    [] OTHER -> Blue

Spreads(c) == c.given.styleMode \in {"spread", "green", "orange"}

\* The props a "button" child gives to Button.
ChildButtonProps(c, pieces) ==
  [EmptyBag EXCEPT
     !["style"] = CASE Spreads(c) -> <<Derive(pieces.style, OwnStyle(c, pieces)).made>>
                    [] c.given.styleMode = "replace" -> <<Blue>>
                    [] OTHER -> <<>>,
     !["disabled"] = c.given.disabled,
     !["onClick"] = c.given.ownClick,
     !["children"] = <<c.content>>]

PlainOwn == [EmptyStyle EXCEPT !["border"] = "none", !["cursor"] = "default"]

InputOwn == [EmptyStyle EXCEPT !["padding"] = "0"]

\* The paragraph of a "plain" child.
ChildPlain(c, pieces) ==
  [tag |-> "p",
   props |-> [EmptyBag EXCEPT
     !["style"] = <<Derive(pieces.style, PlainOwn).made>>,
     !["children"] = <<c.content>>]]

\* The placeholder of Image.js: <span style={style}>, the shared object.
ChildSpan(c, pieces) ==
  [tag |-> "span",
   props |-> [EmptyBag EXCEPT
     !["style"] = <<pieces.style>>,
     !["children"] = <<c.content>>]]

\* An "input" child: three track calls, then the image input.
ChildInput(c, pieces, hooks, id) ==
  LET slots == [i \in 1..InputTrackCalls |-> track(hooks, i, id + i - 1, c.cbs[i])]
  IN [hooks |-> slots,
      el |-> [tag |-> "input",
              props |-> [EmptyBag EXCEPT
                !["onClick"] = <<slots[1].fn>>,
                !["onMouseOver"] = <<slots[2].fn>>,
                !["onMouseOut"] = <<slots[3].fn>>,
                !["style"] = <<Derive(pieces.style, InputOwn).made>>]]]

\* Mutant: the image input whatever loading is.
ShowsPlaceholderNever(c) == FALSE

\* loading ? placeholder : image input
ShowsPlaceholder(c) == c.loading

\* The shared style after the function child c has made its own from it.
SharedAfter(c, pieces) ==
  CASE c.kind = "button" ->
         IF Spreads(c) THEN Derive(pieces.style, OwnStyle(c, pieces)).base
                       ELSE pieces.style
    [] c.kind = "plain" -> Derive(pieces.style, PlainOwn).base
    [] c.kind = "input" -> Derive(pieces.style, InputOwn).base
    [] c.kind = "loader" ->
         IF c.span THEN pieces.style
         ELSE IF ShowsPlaceholder(c) THEN Derive(pieces.style, PlainOwn).base
         ELSE Derive(pieces.style, InputOwn).base
    [] OTHER -> pieces.style

\* The pieces given to a function child.
\* Mutant: the bundle also exposes onClick.
PiecesWithOnClick(B, base) ==
  [Button |-> B, track |-> TrackRef, style |-> base, onClick |-> B.onClick]

Pieces(B, base) == [Button |-> B, track |-> TrackRef, style |-> base]

\* identify: Object.assign(component, { displayName }) and the component.
identify(component) == [component |-> component, displayName |-> <<"Custom(GenericButton)">>]

\* The function objects one render makes: Button, the tracked functions
\* of an "input" child, a fresh function child, a fresh child of Activable.
IdsPerRender == 3 + InputTrackCalls

\* Where an object was made: ModuleLevel for the objects GenericButton.js
\* makes once when it loads, the stamp of the render otherwise.
ModuleLevel == 0

\* Mutant: track and style made anew by every render.
RefsAllNew(B) == [pieces |-> B.id, Button |-> B.id, track |-> B.id, style |-> B.id]

\* Which objects the bundle of a render and its members are: the object
\* literal and Button are made by the render, track and style are the
\* module's.
Refs(B) ==
  [pieces |-> B.id, Button |-> B.id, track |-> ModuleLevel, style |-> ModuleLevel]

NoElement == [tag |-> "none", props |-> EmptyBag]

Builds == {"development", "production"}

\* Object.assign(component, {...}) throws a TypeError for undefined and
\* null, and for a frozen object: the development build freezes the
\* elements it creates.
AssignThrows(w) ==
  \/ w = <<>>
  \/ /\ w[1].kind = "node"
     /\ \/ w[1].content = "null"
        \/ w[1].content = "<strong>" /\ build = "development"

\* Mutant: anything that is given can be rendered.
ValidTypeAnyGiven(w) == w # <<>>

\* createElement(type, props) can be rendered when type is a function.
ValidType(w) == w # <<>> /\ w[1].kind # "node"

\* How rendering createElement(identify(w), props) ends for a w that is not
\* a function: the TypeError of Object.assign, or React's "Element type is
\* invalid" for the object Object.assign returned.
Uncallable(w) == IF AssignThrows(w) THEN "TypeError" ELSE "Invariant"

\* A render that threw: React unmounts the tree.
Failed(error, base) ==
  [root |-> <<>>, nested |-> <<>>, out |-> NoElement, thrown |-> <<error>>,
   base |-> base]

\* React calls the function child c with the props pieces, in an instance
\* whose hooks are given; below is the instance under it, if it was kept;
\* id stamps the functions made and base is the module's style.
CallChild(c, pieces, hooks, below, id, base) ==
  LET input == ChildInput(c, pieces, hooks, id + 1) IN
  CASE c.kind = "button" ->
         LET r == Button(pieces.Button, ChildButtonProps(c, pieces),
                         Reconcile(below, TypeOf(pieces.Button)),
                         id + 1, base)
         IN [hooks |-> <<>>,
             nested |-> <<[type |-> TypeOf(pieces.Button), hooks |-> r.hooks]>>,
             out |-> r.el, base |-> SharedAfter(c, pieces)]
    [] c.kind = "input" ->
         [hooks |-> input.hooks, nested |-> <<>>, out |-> input.el,
          base |-> SharedAfter(c, pieces)]
    [] c.kind = "loader" ->
         IF ShowsPlaceholder(c)
           THEN [hooks |-> <<>>, nested |-> <<>>,
                 out |-> IF c.span THEN ChildSpan(c, pieces) ELSE ChildPlain(c, pieces),
                 base |-> SharedAfter(c, pieces)]
           ELSE [hooks |-> input.hooks, nested |-> <<>>,
                 out |-> IF c.span THEN [input.el EXCEPT !.props["style"] = <<>>]
                                   ELSE input.el,
                 base |-> SharedAfter(c, pieces)]
    [] OTHER ->
         [hooks |-> <<>>, nested |-> <<>>, out |-> ChildPlain(c, pieces),
          base |-> SharedAfter(c, pieces)]

\* identify of Activable.js.
ActivableIdentify(component) ==
  [component |-> component, displayName |-> <<"Custom(Activable)">>]

\* Mutant: the function Activable gives to GenericButton adds a member.
ForwardWithActive(arg) ==
  [arg EXCEPT !.props = [Button |-> arg.props.Button, track |-> arg.props.track,
                         style |-> arg.props.style, active |-> TRUE]]

\* props => createElement(identify(children), props): the element's props
\* are the own properties of props, each with the value it has there.
Forward(arg) ==
  [arg EXCEPT !.props = [k \in DOMAIN arg.props |-> arg.props[k]]]

\* Rendering the function child c that Activable gives to GenericButton,
\* called with arg (the bundle and which objects its members are); type is
\* the function object c is and kept says whether its instance was kept;
\* at holds the instances that are mounted at this place.
ForwardingChild(c, arg, type, kept, at, id, base) ==
  LET w == c.wraps IN
  IF ~ValidType(w)
    THEN Failed(Uncallable(w), base) @@
         [inner |-> <<>>, received |-> <<>>,
          innerName |-> IF w # <<>> /\ w[1].content = "<strong>" /\ ~AssignThrows(w)
                          THEN ActivableIdentify(w[1]).displayName
                          ELSE <<>>]
    ELSE LET tagged == ActivableIdentify(ChildType(w[1], id + 2 + InputTrackCalls))
             wtype == tagged.component
             got == Forward(arg)
             innerKept == kept /\ at.inner # <<>> /\ at.inner[1].type = wtype
             r == CallChild(w[1], got.props,
                            Reconcile(IF kept THEN at.inner ELSE <<>>, wtype),
                            IF innerKept THEN at.nested ELSE <<>>, id, base)
         IN [root |-> <<[type |-> type, hooks |-> <<>>]>>,
             inner |-> <<[type |-> wtype, hooks |-> r.hooks]>>,
             nested |-> r.nested, out |-> r.out, thrown |-> <<>>,
             received |-> <<got>>, innerName |-> tagged.displayName,
             base |-> r.base]

\* One render of GenericButton with props P where the instances at are
\* mounted: the instances, the element and the bundle after it.  id stamps
\* the functions the render makes, base is the module's style.
GenericButtonAt(P, at, id, base) ==
  LET B == ButtonFn(id, onClickOf(P), enhancementOf(P))
      pieces == Pieces(B, base)
      rest == [thrown |-> <<>>, refs |-> <<Refs(B)>>, inner |-> <<>>,
               received |-> <<>>, innerName |-> <<>>]
  IN IF isComponent(P.children)
       THEN IF ~ValidType(P.children)
              THEN Failed(Uncallable(P.children), base)
                     @@ [bundle |-> <<>>, childCalls |-> 0,
                         displayName |-> IF P.children # <<>> /\ ~AssignThrows(P.children)
                                              /\ P.children[1].content = "<strong>"
                                           THEN identify(P.children[1]).displayName
                                           ELSE <<>>]
                     @@ rest
              ELSE
            LET c == P.children[1]
                tagged == identify(ChildType(c, id + 1 + InputTrackCalls))
                type == tagged.component
                kept == at.root # <<>> /\ at.root[1].type = type
                given == [bundle |-> <<pieces>>, childCalls |-> 1,
                          displayName |-> tagged.displayName]
            IN IF c.kind = "forward"
                 THEN ForwardingChild(c, [props |-> pieces, refs |-> Refs(B)], type, kept,
                                      at, id, base)
                        @@ given @@ rest
                 ELSE LET r == CallChild(c, pieces, Reconcile(at.root, type),
                                         IF kept THEN at.nested ELSE <<>>, id, base)
                      IN [root |-> <<[type |-> type, hooks |-> r.hooks]>>,
                          nested |-> r.nested, out |-> r.out, base |-> r.base]
                           @@ given @@ rest
       ELSE LET content == IF P.children = <<>> THEN "undefined"
                           ELSE P.children[1].content
                r == Button(B, [EmptyBag EXCEPT !["children"] = <<content>>],
                            Reconcile(at.root, TypeOf(B)), id + 1, base)
            IN [root |-> <<[type |-> TypeOf(B), hooks |-> r.hooks]>>,
                nested |-> <<>>,
                out |-> r.el, bundle |-> <<>>, childCalls |-> 0,
                displayName |-> <<>>, base |-> base] @@ rest

\* The one GenericButton of the state: its instances are root, nested and
\* inner.
GenericButton(P) ==
  GenericButtonAt(P, [root |-> root, nested |-> nested, inner |-> inner],
                  nextId, sharedStyle)

(***************************************************************************)
(* The state machine.                                                      *)
(***************************************************************************)
\* The GenericButton elements of the demo: those of App.js, and beside
\* Simple and CloseModal the versions written with GenericButton that the
\* Activable ones replaced.
PositionOrder ==
  <<"Toggle", "Simple", "SimpleDirect", "ClickMe", "CloseModal", "CloseModalDirect",
    "Loader">>

Positions == {PositionOrder[i] : i \in 1..Len(PositionOrder)}

\* The components of the demo that call hooks of their own.
Components == {"App", "ClickMe", "Loader"}

Unmounted ==
  [root |-> <<>>, nested |-> <<>>, inner |-> <<>>, out |-> NoElement,
   bundle |-> <<>>, childCalls |-> 0, displayName |-> <<>>, thrown |-> <<>>,
   refs |-> <<>>, received |-> <<>>, innerName |-> <<>>, base |-> style]

\* The module has loaded and nothing has rendered yet.
Loaded ==
  /\ mounted = FALSE
  /\ gbProps = NoProps
  /\ root = <<>>
  /\ nested = <<>>
  /\ out = NoElement
  /\ bundle = <<>>
  /\ childCalls = 0
  /\ displayName = <<>>
  /\ sharedStyle = style
  /\ nextId = 1
  /\ fired = <<>>
  /\ trace = <<>>
  /\ result = <<>>
  /\ thrown = <<>>
  /\ refs = <<>>
  /\ acProps = <<>>
  /\ inner = <<>>
  /\ received = <<>>
  /\ innerName = <<>>
  /\ printed = <<>>
  /\ appMounted = FALSE
  /\ active = FALSE
  /\ pending = <<>>
  /\ clicks = 0
  /\ loading = TRUE
  /\ loadPending = FALSE
  /\ images = 0
  /\ listeners = 0
  /\ effectDue = FALSE
  /\ effectRan = FALSE
  /\ tree = [pos \in Positions |-> Unmounted]
  /\ loaderHooks = <<>>
  /\ hookCalls = [comp \in Components |-> <<>>]
  /\ memoHooks = <<>>

\* GenericButton assigns displayName to functions only, so the build makes
\* no difference to it.
Init ==
  /\ Loaded
  /\ build = "production"
  /\ source = <<>>
  /\ loaderKind = "Input"

\* What one render of GenericButton with props P leaves behind.
Rendered(P) ==
  \E r \in {GenericButton(P)} :
    /\ root' = r.root
    /\ nested' = r.nested
    /\ out' = r.out
    /\ bundle' = r.bundle
    /\ childCalls' = r.childCalls
    /\ displayName' = r.displayName
    /\ thrown' = r.thrown
    /\ refs' = r.refs
    /\ inner' = r.inner
    /\ received' = r.received
    /\ innerName' = r.innerName
    /\ mounted' = (r.thrown = <<>>)
    /\ gbProps' = P
    /\ sharedStyle' = r.base
    /\ nextId' = nextId + IdsPerRender

\* React renders GenericButton with the props its parent passes.
Render(P) ==
  /\ result = <<>>
  /\ nextId < 1 + MaxRenders * IdsPerRender
  /\ Rendered(P)
  /\ UNCHANGED <<build, memoHooks, acProps, eventVars, textVars, appVars>>

\* An event on the rendered element calls its handler with params; a
\* caller's function that gets called behaves as o says.
Fire(name, params, o) ==
  /\ mounted
  /\ result = <<>>
  /\ Has(out.props, name)
  /\ ~(out.tag = "button" /\ out.props["disabled"] = <<TRUE>>)
  /\ fired' = <<[name |-> name, params |-> params]>>
  /\ LET r == Apply(out.props[name][1], params, o) IN
       /\ trace' = r.events
       /\ result' = <<r.outcome>>
  /\ UNCHANGED <<renderVars, activableVars, textVars, appVars>>

\* The handler has returned (or thrown) to the event loop.
Return ==
  /\ result # <<>>
  /\ fired' = <<>>
  /\ trace' = <<>>
  /\ result' = <<>>
  /\ UNCHANGED <<renderVars, activableVars, textVars, appVars>>

Next ==
  \/ \E P \in GBProps : Render(P)
  \/ \E name \in HandlerNames, params \in ArgLists, o \in Outcomes : Fire(name, params, o)
  \/ Return

Spec == Init /\ [][Next]_vars

(***************************************************************************)
(* Activable: renders GenericButton with its onClick, disabled = !active   *)
(* and, as the child, a function that renders Activable's own child with   *)
(* the props it is called with.                                            *)
(***************************************************************************)
ActivableChildren == Nodes \cup ButtonChildren \cup PlainChildren

ActivableProps ==
  [children : {<<>>} \cup {<<c>> : c \in ActivableChildren},
   onClick : {<<>>} \cup {<<f>> : f \in Callbacks},
   active : {<<>>, <<TRUE>>, <<FALSE>>}]

\* Activable.defaultProps = { active: true }
ActiveOf(A) == IF A.active = <<>> THEN TRUE ELSE A.active[1]

\* The function child Activable gives to GenericButton: a new function in
\* every render of Activable, closing over Activable's children.
Forwarder(children) ==
  [kind |-> "forward", fresh |-> TRUE, content |-> "", given |-> NoneGiven,
   cbs |-> <<>>, wraps |-> children]

\* Mutant: disabled={active}.
ActivableDisabledWhenActive(A) ==
  [children |-> <<Forwarder(A.children)>>, onClick |-> A.onClick,
   disabled |-> <<ActiveOf(A)>>]

\* The props Activable renders GenericButton with.
Activable(A) ==
  [children |-> <<Forwarder(A.children)>>, onClick |-> A.onClick,
   disabled |-> <<~ActiveOf(A)>>]

\* Either build can be the one that runs.
ActivableInit ==
  /\ Loaded
  /\ build \in Builds
  /\ source = <<>>
  /\ loaderKind = "Input"

\* React renders Activable with the props its parent passes.
RenderActivable(A) ==
  /\ result = <<>>
  /\ nextId < 1 + MaxRenders * IdsPerRender
  /\ Rendered(Activable(A))
  /\ acProps' = <<A>>
  /\ UNCHANGED <<build, memoHooks, eventVars, textVars, appVars>>

ActivableNext ==
  \/ \E A \in ActivableProps : RenderActivable(A)
  \/ \E name \in HandlerNames, params \in ArgLists, o \in Outcomes : Fire(name, params, o)
  \/ Return

ActivableSpec == ActivableInit /\ [][ActivableNext]_vars

(***************************************************************************)
(* stringify alone, applied to the text of any function.                   *)
(***************************************************************************)
Chars == WhiteSpace \cup {"a", "b"}

Texts == UNION {[1..n -> Chars] : n \in 0..MaxLen}

StringifyInit ==
  /\ Loaded
  /\ build = "production"
  /\ source \in Texts
  /\ loaderKind = "Input"

\* track's function runs stringify(callback) for a callback with this text.
Stringify ==
  /\ printed = <<>>
  /\ printed' = <<stringify(Written)>>
  /\ UNCHANGED <<renderVars, activableVars, eventVars, source, appVars>>

StringifyNext == Stringify

StringifySpec == StringifyInit /\ [][StringifyNext]_vars

(***************************************************************************)
(* The demo: App with its state active, the toggle button, Simple,         *)
(* ClickMe, CloseModal and the image component (Input, or Image of the     *)
(* earlier App) with its state loading.                                    *)
(***************************************************************************)
\* The number of the next render.
AppStamp == (nextId - 1) \div (Len(PositionOrder) * IdsPerRender) + 1

\* The object render n makes from arrow function k of the source.
Arrow(k, n) == Callback(k + AppSources * n)

ButtonChild(fresh, content, mode, disabled) ==
  [kind |-> "button", fresh |-> fresh, content |-> content,
   given |-> Given(mode, disabled, <<>>), cbs |-> <<>>]

\* <GenericButton onClick={onClick}>{child}</GenericButton>
Direct(child, onClick) ==
  [children |-> <<child>>, onClick |-> onClick, style |-> <<>>, disabled |-> <<>>]

Toggle(n) ==
  Direct(Node("Toggle <strong>close modal</strong> button activeness"), <<Arrow(1, n)>>)

Simple(a, n) ==
  Activable([children |-> <<ButtonChild(TRUE, "Button", "green", <<>>)>>,
             onClick |-> <<Arrow(2, n)>>, active |-> <<a>>])

SimpleDirect(a, n) ==
  Direct(ButtonChild(TRUE, "Button", "green", <<~a>>), <<Arrow(2, n)>>)

\* The child of ClickMe is memoized with no dependency: one object.
ClickMe(n) == Direct(ButtonChild(FALSE, "ClickMe", "spread", <<>>), <<Arrow(3, n)>>)

CloseModal(a, n) ==
  Activable([children |-> <<ButtonChild(TRUE, "Close Modal", "orange", <<>>)>>,
             onClick |-> <<Arrow(4, n)>>, active |-> <<a>>])

CloseModalDirect(a, n) ==
  Direct(ButtonChild(TRUE, "Close Modal", "orange", <<~a>>), <<Arrow(4, n)>>)

\* The stamp of the functions the render at a position makes.
RECURSIVE IndexOf(_, _)
IndexOf(pos, order) == IF Head(order) = pos THEN 1 ELSE 1 + IndexOf(pos, Tail(order))

PosId(pos) == nextId + (IndexOf(pos, PositionOrder) - 1) * IdsPerRender

\* The function child the image component makes in render n with loading l.
LoaderChild(l, n) ==
  [kind |-> "loader", fresh |-> TRUE, content |-> "Loading image...",
   given |-> NoneGiven, cbs |-> <<Arrow(5, n), Arrow(6, n), Arrow(7, n)>>,
   loading |-> l, span |-> loaderKind = "Image",
   ref |-> PosId("Loader") + 1 + InputTrackCalls]

\* The useCallback slots of Image after a render with loading l: load,
\* with no dependency, and the function child, with the dependency loading.
ImageHooks(l, n) ==
  << useCallback(loaderHooks, 1, [kind |-> "load", id |-> PosId("Loader"), cb |-> 0], <<>>),
     useCallback(loaderHooks, 2, LoaderChild(l, n), l) >>

\* The child the image component passes to GenericButton: Input a new
\* function, Image the memoized one, whose handlers are made when it is
\* called.
Loader(l, n) ==
  Direct(IF loaderKind = "Image"
           THEN [ImageHooks(l, n)[2].fn EXCEPT !.cbs = LoaderChild(l, n).cbs]
           ELSE LoaderChild(l, n),
         <<>>)

\* The props of every GenericButton when App renders with active a and the
\* image component with loading l.
AppProps(a, l, n) ==
  [pos \in Positions |->
     CASE pos = "Toggle" -> Toggle(n)
       [] pos = "Simple" -> Simple(a, n)
       [] pos = "SimpleDirect" -> SimpleDirect(a, n)
       [] pos = "ClickMe" -> ClickMe(n)
       [] pos = "CloseModal" -> CloseModal(a, n)
       [] pos = "CloseModalDirect" -> CloseModalDirect(a, n)
       [] OTHER -> Loader(l, n)]

\* The hooks a component calls in one render, in order.
HooksOf(comp) ==
  CASE comp = "App" -> <<"useState">>
    [] comp = "ClickMe" -> <<"useCallback">>
    [] OTHER -> IF loaderKind = "Image"
                  THEN <<"useState", "useCallback", "useEffect", "useCallback">>
                  ELSE <<"useState", "useEffect">>

\* The GenericButton elements at the positions of order rendered one after
\* the other, each with the shared style as the one before left it.
RECURSIVE RenderEach(_, _, _)
RenderEach(order, props, acc) ==
  IF order = <<>> THEN acc
  ELSE RenderEach(Tail(order), props,
         Append(acc, GenericButtonAt(props[Head(order)], tree[Head(order)],
                                     PosId(Head(order)),
                                     IF acc = <<>> THEN sharedStyle
                                                   ELSE acc[Len(acc)].base)))

\* What a render of the components at order, with active a and loading l,
\* leaves behind.
AppRendered(order, a, l) ==
  \E done \in {RenderEach(order, AppProps(a, l, AppStamp), <<>>)} :
    /\ tree' = [pos \in Positions |->
                  IF \E i \in 1..Len(order) : order[i] = pos
                    THEN done[IndexOf(pos, order)]
                    ELSE tree[pos]]
    /\ sharedStyle' = done[Len(done)].base
    /\ loaderHooks' = IF loaderKind = "Image" THEN ImageHooks(l, AppStamp) ELSE <<>>
    /\ hookCalls' = [comp \in Components |->
                       IF comp = "Loader" \/ Len(order) > 1 THEN HooksOf(comp)
                                                             ELSE hookCalls[comp]]
    /\ nextId' = nextId + Len(PositionOrder) * IdsPerRender
    /\ active' = a
    /\ loading' = l
    /\ pending' = <<>>
    /\ loadPending' = FALSE

\* Mutant: setActive(!active), with the active of the render.
toggleCaptured(captured) == [fn |-> FALSE, value |-> ~captured]

\* toggleActiveness: setActive(current => !current) queues a function of
\* the value then current.
toggleActiveness(captured) == [fn |-> TRUE, value |-> captured]

RECURSIVE ApplyUpdates(_, _)
ApplyUpdates(updates, current) ==
  IF updates = <<>> THEN current
  ELSE ApplyUpdates(Tail(updates),
                    IF Head(updates).fn THEN ~current ELSE Head(updates).value)

\* Mutant: load flips loading.
loadToggling(current) == ~current

\* load: setLoading(false)
load(current) == FALSE

\* Mutant: an effect without a dependency list runs after every render.
EffectIsDueAlways(ran) == TRUE

\* useEffect(effect, []): the effect runs after the first render only.
EffectIsDue(ran) == ~ran

AppInit ==
  /\ Loaded
  /\ build \in Builds
  /\ source = <<>>
  /\ loaderKind \in {"Input", "Image"}

\* React renders App for the first time.
Mount ==
  /\ ~appMounted
  /\ appMounted' = TRUE
  /\ AppRendered(PositionOrder, active, loading)
  /\ effectDue' = EffectIsDue(effectRan)
  /\ UNCHANGED <<mounted, gbProps, root, nested, out, bundle, childCalls, displayName,
                 thrown, refs, build, memoHooks, activableVars, eventVars, textVars,
                 clicks, images, listeners, effectRan, loaderKind>>

\* The effect of the image component: an image is created and load is
\* registered as its load listener.
RunEffect ==
  /\ effectDue
  /\ images' = images + 1
  /\ listeners' = listeners + 1
  /\ effectDue' = FALSE
  /\ effectRan' = TRUE
  /\ UNCHANGED <<renderVars, activableVars, eventVars, textVars, appMounted, active,
                 pending, clicks, loading, loadPending, tree, loaderKind, loaderHooks,
                 hookCalls>>

\* Has this run of a handler called the callback?
Called(events) == \E i \in 1..Len(events) : events[i].ev = "call"

\* A click on the toggle button runs its handler; toggleActiveness returns
\* undefined.
ClickToggle ==
  /\ appMounted
  /\ clicks < MaxClicks
  /\ Has(tree["Toggle"].out.props, "onClick")
  /\ tree["Toggle"].out.props["disabled"] # <<TRUE>>
  /\ LET r == Apply(tree["Toggle"].out.props["onClick"][1], <<"event">>,
                    [threw |-> FALSE, val |-> "undefined"])
     IN pending' = IF Called(r.events) THEN Append(pending, toggleActiveness(active))
                                       ELSE pending
  /\ clicks' = clicks + 1
  /\ UNCHANGED <<renderVars, activableVars, eventVars, textVars, appMounted, active,
                 loading, loadPending, images, listeners, effectDue, effectRan, tree,
                 loaderKind, loaderHooks, hookCalls>>

\* React renders App again with the queued updates applied, and with it
\* every component below.
RenderApp ==
  /\ appMounted
  /\ pending # <<>>
  /\ AppStamp <= MaxAppRenders
  /\ AppRendered(PositionOrder, ApplyUpdates(pending, active),
                 IF loadPending THEN load(loading) ELSE loading)
  /\ effectDue' = (effectDue \/ EffectIsDue(effectRan))
  /\ UNCHANGED <<mounted, gbProps, root, nested, out, bundle, childCalls, displayName,
                 thrown, refs, build, memoHooks, activableVars, eventVars, textVars,
                 appMounted, clicks, images, listeners, effectRan, loaderKind>>

\* The image's load notification calls the listener.
Load ==
  /\ listeners > 0
  /\ loadPending' = TRUE
  /\ UNCHANGED <<renderVars, activableVars, eventVars, textVars, appMounted, active,
                 pending, clicks, loading, images, listeners, effectDue, effectRan, tree,
                 loaderKind, loaderHooks, hookCalls>>

\* React renders the image component again, and what is below it, after
\* setLoading.
RenderInput ==
  /\ appMounted
  /\ loadPending
  /\ AppStamp <= MaxAppRenders
  /\ \E done \in {RenderEach(<<"Loader">>, AppProps(active, load(loading), AppStamp), <<>>)} :
       /\ tree' = [tree EXCEPT !["Loader"] = done[1]]
       /\ sharedStyle' = done[1].base
  /\ loaderHooks' = IF loaderKind = "Image" THEN ImageHooks(load(loading), AppStamp) ELSE <<>>
  /\ hookCalls' = [hookCalls EXCEPT !["Loader"] = HooksOf("Loader")]
  /\ nextId' = nextId + Len(PositionOrder) * IdsPerRender
  /\ loading' = load(loading)
  /\ loadPending' = FALSE
  /\ effectDue' = (effectDue \/ EffectIsDue(effectRan))
  /\ UNCHANGED <<mounted, gbProps, root, nested, out, bundle, childCalls, displayName,
                 thrown, refs, build, memoHooks, activableVars, eventVars, textVars,
                 appMounted, active, pending, clicks, images, listeners, effectRan,
                 loaderKind>>

AppNext ==
  \/ Mount
  \/ RunEffect
  \/ ClickToggle
  \/ RenderApp
  \/ Load
  \/ RenderInput

AppSpec == AppInit /\ [][AppNext]_vars

\* React performs the render it has scheduled for setLoading.
AppFairSpec == AppSpec /\ WF_vars(RenderInput)

(***************************************************************************)
(* The earlier GenericButton, which memoizes Button with no dependency:    *)
(* Button = useCallback(props => <button onClick={track(onClick)} ... />,  *)
(* []).  It has no enhancement and does not name the child, and its style  *)
(* is { fontSize: 20 }.                                                    *)
(***************************************************************************)
EarlierStyle == [EmptyStyle EXCEPT !["fontSize"] = "20"]

MemoProps ==
  [children : {<<>>} \cup {<<c>> : c \in Nodes \cup ButtonChildren},
   onClick : {<<>>} \cup {<<f>> : f \in Callbacks},
   style : {<<>>}, disabled : {<<>>}]

\* One render of that GenericButton with props P, hooks being the slots of
\* its own instance and at the instances below it.
GenericButtonMemoizing(P, hooks, at, id) ==
  LET slot == useCallback(hooks, 1, ButtonFn(id, onClickOf(P), EmptyBag), <<>>)
      B == slot.fn
      pieces == Pieces(B, EarlierStyle)
      rest == [thrown |-> <<>>, refs |-> <<Refs(B)>>, inner |-> <<>>,
               received |-> <<>>, innerName |-> <<>>, displayName |-> <<>>,
               memo |-> <<slot>>]
  IN IF isComponent(P.children)
       THEN LET c == P.children[1]
                type == ChildType(c, id + 1 + InputTrackCalls)
                kept == at.root # <<>> /\ at.root[1].type = type
                r == CallChild(c, pieces, Reconcile(at.root, type),
                               IF kept THEN at.nested ELSE <<>>, id, EarlierStyle)
            IN [root |-> <<[type |-> type, hooks |-> r.hooks]>>,
                nested |-> r.nested, out |-> r.out,
                bundle |-> <<pieces>>, childCalls |-> 1] @@ rest
       ELSE LET content == IF P.children = <<>> THEN "undefined"
                           ELSE P.children[1].content
                r == Button(B, [EmptyBag EXCEPT !["children"] = <<content>>],
                            Reconcile(at.root, TypeOf(B)), id + 1, EarlierStyle)
            IN [root |-> <<[type |-> TypeOf(B), hooks |-> r.hooks]>>,
                nested |-> <<>>, out |-> r.el,
                bundle |-> <<>>, childCalls |-> 0] @@ rest

MemoInit ==
  /\ Loaded
  /\ build = "production"
  /\ source = <<>>
  /\ loaderKind = "Input"

\* React renders that GenericButton with the props its parent passes.
RenderMemo(P) ==
  /\ result = <<>>
  /\ nextId < 1 + MaxRenders * IdsPerRender
  /\ \E r \in {GenericButtonMemoizing(P, memoHooks,
                 [root |-> root, nested |-> nested, inner |-> inner], nextId)} :
       /\ root' = r.root
       /\ nested' = r.nested
       /\ out' = r.out
       /\ bundle' = r.bundle
       /\ childCalls' = r.childCalls
       /\ displayName' = r.displayName
       /\ thrown' = r.thrown
       /\ refs' = r.refs
       /\ inner' = r.inner
       /\ received' = r.received
       /\ innerName' = r.innerName
       /\ memoHooks' = r.memo
  /\ mounted' = TRUE
  /\ gbProps' = P
  /\ nextId' = nextId + IdsPerRender
  /\ UNCHANGED <<sharedStyle, build, acProps, eventVars, textVars, appVars>>

MemoNext ==
  \/ \E P \in MemoProps : RenderMemo(P)
  \/ \E name \in HandlerNames, params \in ArgLists, o \in Outcomes : Fire(name, params, o)
  \/ Return

MemoSpec == MemoInit /\ [][MemoNext]_vars

(***************************************************************************)
(* What the latest render was given.                                       *)
(***************************************************************************)
\* GenericButton has been rendered, whether or not the render threw.
HasRendered == nextId > 1

FunctionChild == gbProps.children # <<>> /\ gbProps.children[1].kind # "node"

ContentGiven ==
  IF gbProps.children = <<>> THEN "undefined" ELSE gbProps.children[1].content

\* The props the latest render passed to Button.
GivenToButton ==
  IF FunctionChild
    THEN ChildButtonProps(gbProps.children[1], bundle[1])
    ELSE [EmptyBag EXCEPT !["children"] = <<ContentGiven>>]

ButtonRendered == mounted /\ out.tag = "button"

\* The click handler of the rendered element is a function made by track
\* around the onClick of the latest render.
HandlerTracksOnClick ==
  /\ Has(out.props, "onClick")
  /\ out.props["onClick"][1].kind = "tracked"
  /\ CbOf(out.props["onClick"][1]) = onClickOf(gbProps)

Clicked == fired # <<>> /\ fired[1].name = "onClick"

(***************************************************************************)
(* C1: for a child that is not a function (text, markup, number, null,     *)
(* none) GenericButton renders its Button with the child as content, and   *)
(* the click handler of the button is track(onClick), the callback of the  *)
(* Button instance's track slot.                                           *)
(***************************************************************************)
C1_NodeChildInButton ==
  (HasRendered /\ ~FunctionChild) =>
     /\ mounted
     /\ out.tag = "button"
     /\ out.props["children"] = <<ContentGiven>>
     /\ HandlerTracksOnClick
     /\ root # <<>> /\ root[1].type.kind = "Button"
     /\ out.props["onClick"] = <<root[1].hooks[1].fn>>

C1_Witness ==
  /\ mounted
  /\ gbProps.children = <<Node("null")>>
  /\ gbProps.onClick = <<Callback(2)>>
  /\ out.tag = "button"
  /\ out.props["children"] = <<"null">>
  /\ out.props["onClick"][1].cb = 2

(***************************************************************************)
(* C2: for a function child, a render calls the child exactly once, with a *)
(* bundle of exactly Button, track and style (the shared style), and the   *)
(* output is what the child returned: the child's own element, or the one  *)
(* Button element the child returned, with no Button around the child.     *)
(***************************************************************************)
C2_FunctionChildCalledOnce ==
  (mounted /\ FunctionChild) =>
     LET c == gbProps.children[1] IN
     /\ childCalls = 1
     /\ bundle # <<>>
     /\ DOMAIN bundle[1] = {"Button", "track", "style"}
     /\ bundle[1].style = style
     /\ bundle[1].track = TrackRef
     /\ bundle[1].Button.kind = "Button"
     /\ root # <<>> /\ root[1].type.kind = c.kind
     /\ c.kind = "plain" =>
          /\ out.tag = "p" /\ nested = <<>>
          /\ out.props["children"] = <<c.content>>
          /\ ~Has(out.props, "onClick")
     /\ c.kind = "input" => out.tag = "input" /\ nested = <<>>
     /\ c.kind = "button" =>
          /\ out.tag = "button"
          /\ nested # <<>> /\ nested[1].type = TypeOf(bundle[1].Button)
          /\ out.props["children"] = <<c.content>>

C2_Witness ==
  /\ mounted
  /\ FunctionChild
  /\ gbProps.children[1].kind = "plain"
  /\ childCalls = 1
  /\ out.tag = "p"
  /\ bundle # <<>>

(***************************************************************************)
(* C3: every property of the rendered button has the value of the          *)
(* enhancement given to GenericButton when the enhancement has it, else    *)
(* the value given to Button when that has it, else the base value         *)
(* (tracked handler, shared style); so a disabled given to GenericButton   *)
(* wins over a disabled given to Button.                                   *)
(***************************************************************************)
C3_Precedence ==
  ButtonRendered =>
    LET enh == enhancementOf(gbProps)
        given == GivenToButton
    IN \A k \in PropNames :
         IF Has(enh, k) THEN out.props[k] = enh[k]
         ELSE IF Has(given, k) THEN out.props[k] = given[k]
         ELSE IF k = "onClick" THEN HandlerTracksOnClick
         ELSE IF k = "style" THEN out.props[k] = <<style>>
         ELSE out.props[k] = <<>>

C3_Witness ==
  /\ ButtonRendered
  /\ FunctionChild
  /\ gbProps.disabled = <<FALSE>>
  /\ GivenToButton["disabled"] = <<TRUE>>
  /\ out.props["disabled"] = <<FALSE>>

(***************************************************************************)
(* C4 as claimed: the style of the rendered button is the shared style     *)
(* merged with the style object the child gave to Button, so every base    *)
(* key the child's object does not mention keeps its base value (here with *)
(* no style in the enhancement).                                           *)
(***************************************************************************)
C4_StyleMergedWithBase ==
  (ButtonRendered /\ FunctionChild /\ Has(GivenToButton, "style")
     /\ ~Has(enhancementOf(gbProps), "style")) =>
    LET s == GivenToButton["style"][1] IN
    /\ Has(out.props, "style")
    /\ \A k \in StyleKeys : s[k] = "" => out.props["style"][1][k] = style[k]

(***************************************************************************)
(* C4 amended: the style of the rendered button is exactly the style       *)
(* object the child gave to Button (or the one of the enhancement when it  *)
(* has one); the shared style is replaced, not merged, so a base key stays *)
(* only when the child's object has it, as it does when the child spreads  *)
(* style into its object.                                                  *)
(***************************************************************************)
C4_StyleGivenReplacesBase ==
  (ButtonRendered /\ FunctionChild /\ Has(GivenToButton, "style")) =>
    LET s == GivenToButton["style"][1]
        enh == enhancementOf(gbProps)
    IN /\ Has(enh, "style") => out.props["style"] = enh["style"]
       /\ ~Has(enh, "style") =>
            /\ out.props["style"] = <<s>>
            /\ \A k \in StyleKeys : out.props["style"][1][k] = s[k]
            /\ gbProps.children[1].given.styleMode = "spread" =>
                 \A k \in StyleKeys \ {"background"} :
                    out.props["style"][1][k] = style[k]

C4_Witness ==
  /\ ButtonRendered
  /\ FunctionChild
  /\ gbProps.children[1].given.styleMode = "replace"
  /\ ~Has(enhancementOf(gbProps), "style")
  /\ out.props["style"] = <<Blue>>
  /\ out.props["style"][1]["fontSize"] = ""

TrackedFired ==
  /\ fired # <<>>
  /\ Has(out.props, fired[1].name)
  /\ out.props[fired[1].name][1].kind = "tracked"
  /\ out.props[fired[1].name][1].cb # 0

FiredCallback == CbOf(out.props[fired[1].name][1])

InputRendered == mounted /\ FunctionChild /\ gbProps.children[1].kind = "input"

HandlerOrder == <<"onClick", "onMouseOver", "onMouseOut">>

\* What the i-th track call of the latest render was given and returned.
TrackGiven(i) == gbProps.children[1].cbs[i]

TrackReturned(i) == out.props[HandlerOrder[i]][1]

RenderStep == nextId' # nextId

(***************************************************************************)
(* C6: an invocation of a callback made by track(f) with arguments (a, b)  *)
(* makes exactly one console emission, of the text of f, and then exactly  *)
(* one call f(a, b), in that order; the emission is there also when f      *)
(* throws.                                                                 *)
(***************************************************************************)
C6_LogThenCall ==
  TrackedFired =>
    /\ Len(trace) = 2
    /\ trace[1] = LogEvent(stringify(FiredCallback))
    /\ trace[2].ev = "call"
    /\ trace[2].cb = FiredCallback.id
    /\ trace[2].args = fired[1].params
    /\ result # <<>>

C6_Witness ==
  /\ TrackedFired
  /\ fired[1].params = <<"a", "b">>
  /\ result[1].threw
  /\ Len(trace) = 2
  /\ trace[1].ev = "log"
  /\ trace[2].args = <<"a", "b">>

(***************************************************************************)
(* C7: what the callback made by track(f) returns (or throws) is what the  *)
(* call of f on the same arguments returned (or threw), also when that is  *)
(* falsy: undefined, 0, false, the empty string.                           *)
(***************************************************************************)
C7_ReturnsCallbackValue ==
  TrackedFired =>
    /\ result # <<>>
    /\ \E n \in 1..Len(trace) :
         /\ trace[n].ev = "call"
         /\ trace[n].cb = FiredCallback.id
         /\ trace[n].args = fired[1].params
         /\ trace[n].did = result[1]

C7_Witness ==
  /\ TrackedFired
  /\ result = <<[threw |-> FALSE, val |-> "0"]>>
  /\ Len(trace) = 2
  /\ trace[2].did.val = "0"

(***************************************************************************)
(* C8 as claimed: within one component instance, two calls of track with   *)
(* the same callback return the same wrapped callback, be the two calls in *)
(* the same render or in consecutive renders.                              *)
(***************************************************************************)
C8_SameRender ==
  InputRendered =>
    \A i, j \in 1..InputTrackCalls :
       TrackGiven(i) = TrackGiven(j) => TrackReturned(i) = TrackReturned(j)

C8_ConsecutiveRenders ==
  (RenderStep /\ InputRendered /\ InputRendered' /\ root'[1].type = root[1].type) =>
    \A i, j \in 1..InputTrackCalls :
       TrackGiven(i)' = TrackGiven(j) => TrackReturned(i)' = TrackReturned(j)

C8_SameCallbackSameWrapper == [](C8_SameRender) /\ [][C8_ConsecutiveRenders]_vars

(***************************************************************************)
(* C8 amended: within one component instance, the track call at the same   *)
(* position in consecutive renders returns the same wrapped callback when  *)
(* it is given the same callback; two track calls of one render return     *)
(* two distinct wrapped callbacks, also when given the same callback.      *)
(***************************************************************************)
C8_DistinctInOneRender ==
  InputRendered =>
    \A i, j \in 1..InputTrackCalls :
       i # j => TrackReturned(i) # TrackReturned(j)

C8_SamePositionKept ==
  (RenderStep /\ InputRendered /\ InputRendered' /\ root'[1].type = root[1].type) =>
    \A i \in 1..InputTrackCalls :
       TrackGiven(i)' = TrackGiven(i) => TrackReturned(i)' = TrackReturned(i)

C8_SameSlotSameWrapper == [](C8_DistinctInOneRender) /\ [][C8_SamePositionKept]_vars

\* After a second render of a kept "input" child: the first track call
\* returned the callback of the first render, and the second, given the
\* same callback, another one.
C8_Witness ==
  /\ InputRendered
  /\ ~gbProps.children[1].fresh
  /\ nextId = 1 + 2 * IdsPerRender
  /\ TrackGiven(1) = TrackGiven(2)
  /\ TrackReturned(1).id <= IdsPerRender
  /\ TrackReturned(1) # TrackReturned(2)

(***************************************************************************)
(* C9: across two consecutive renders of one GenericButton with the same   *)
(* onClick, the tracked click handler of the rendered button is the same   *)
(* function object.                                                        *)
(***************************************************************************)
C9_StableStep ==
  (/\ RenderStep
   /\ ButtonRendered /\ ButtonRendered'
   /\ HandlerTracksOnClick /\ HandlerTracksOnClick'
   /\ onClickOf(gbProps).kind = "callback"
   /\ onClickOf(gbProps') = onClickOf(gbProps))
  => out'.props["onClick"] = out.props["onClick"]

C9_HandlerStableAcrossRenders == [][C9_StableStep]_vars

(***************************************************************************)
(* C10: a track position holds one wrapped callback, made for the callback *)
(* the latest render gave it; a render that gives it a callback of another *)
(* identity gets a new wrapped callback; and a click on the rendered       *)
(* button logs and calls the onClick of the latest render, no callback     *)
(* that only an earlier render had.                                        *)
(***************************************************************************)
\* The Button instance of the latest render.
ButtonInstance == IF FunctionChild THEN nested[1] ELSE root[1]

\* The callbacks the latest render handed over.
LatestCallbacks ==
  {CbKey(onClickOf(gbProps))}
    \cup (IF FunctionChild
            THEN {CbKey(f[1]) : f \in {gbProps.children[1].given.ownClick} \ {<<>>}}
                   \cup {CbKey(gbProps.children[1].cbs[i]) :
                           i \in 1..Len(gbProps.children[1].cbs)}
            ELSE {})

C10_MemoHoldsLatest ==
  /\ ButtonRendered =>
       /\ Len(ButtonInstance.hooks) = 1
       /\ ButtonInstance.hooks[1].dep = onClickOf(gbProps)
       /\ CbOf(ButtonInstance.hooks[1].fn) = onClickOf(gbProps)
  /\ InputRendered =>
       /\ Len(root[1].hooks) = InputTrackCalls
       /\ \A i \in 1..InputTrackCalls :
            /\ root[1].hooks[i].dep = TrackGiven(i)
            /\ root[1].hooks[i].fn = TrackReturned(i)
            /\ TrackReturned(i).kind = "tracked"
            /\ CbOf(TrackReturned(i)) = TrackGiven(i)

C10_ClickCallsLatest ==
  /\ (ButtonRendered /\ Clicked /\ HandlerTracksOnClick) =>
       /\ trace # <<>>
       /\ trace[1] = LogEvent(stringify(onClickOf(gbProps)))
       /\ onClickOf(gbProps).kind = "callback" =>
            /\ Len(trace) = 2
            /\ trace[2].ev = "call"
            /\ trace[2].cb = onClickOf(gbProps).id
  /\ \A n \in 1..Len(trace) : trace[n].ev = "call" => trace[n].cb \in LatestCallbacks

C10_ReplacedStep ==
  /\ (RenderStep /\ InputRendered /\ InputRendered') =>
       \A i \in 1..InputTrackCalls :
          TrackGiven(i)' # TrackGiven(i) => TrackReturned(i)' # TrackReturned(i)
  /\ (/\ RenderStep
      /\ ButtonRendered /\ ButtonRendered'
      /\ HandlerTracksOnClick /\ HandlerTracksOnClick'
      /\ onClickOf(gbProps') # onClickOf(gbProps))
     => out'.props["onClick"] # out.props["onClick"]

C10_MemoOfLatestCallback ==
  [](C10_MemoHoldsLatest /\ C10_ClickCallsLatest) /\ [][C10_ReplacedStep]_vars

\* After a second render of a kept "input" child: its first position still
\* has the callback of the first render, its second a new one, which is
\* invoked and calls what the second render gave it.
C10_Witness ==
  /\ InputRendered
  /\ ~gbProps.children[1].fresh
  /\ nextId = 1 + 2 * IdsPerRender
  /\ TrackReturned(1).id <= IdsPerRender
  /\ TrackReturned(2).id > IdsPerRender
  /\ fired # <<>> /\ fired[1].name = "onMouseOver"
  /\ Len(trace) = 2
  /\ trace[2].cb = TrackGiven(2).id


(***************************************************************************)
(* What the latest render of Activable was given.                          *)
(***************************************************************************)
ActivableRendered == acProps # <<>>

\* Activable's child is a function that renders Button.
ActivableButtonChild ==
  /\ ActivableRendered
  /\ acProps[1].children # <<>>
  /\ acProps[1].children[1].kind = "button"

DisabledByChild == acProps[1].children[1].given.disabled

\* !active, with active true when it is omitted.
NotActive == acProps[1].active = <<FALSE>>

(***************************************************************************)
(* C11: when Activable's child renders Button without a disabled of its    *)
(* own, the rendered button's disabled is the negation of active: true     *)
(* for active false, false for active true and for active omitted.         *)
(***************************************************************************)
C11_DisabledIsNotActive ==
  (ActivableButtonChild /\ DisabledByChild = <<>>) =>
    /\ mounted
    /\ out.tag = "button"
    /\ out.props["disabled"] = <<NotActive>>

\* Activable rendered without active, its child giving Button no disabled:
\* the button is there and is not disabled.
C11_Witness ==
  /\ ActivableButtonChild
  /\ DisabledByChild = <<>>
  /\ acProps[1].active = <<>>
  /\ out.tag = "button"
  /\ out.props["disabled"] = <<FALSE>>

(***************************************************************************)
(* C12 as stated: through Activable, a disabled that the child gives to    *)
(* Button is the disabled of the rendered button, whatever active is.      *)
(***************************************************************************)
C12_ChildDisabledWins ==
  (ActivableButtonChild /\ DisabledByChild # <<>>) =>
    out.props["disabled"] = DisabledByChild

(***************************************************************************)
(* C12, amended: through Activable, the disabled of the rendered button is *)
(* the negation of active also when the child gives Button a disabled of   *)
(* its own: the value derived from active takes precedence.                *)
(***************************************************************************)
C12_ActiveWins ==
  (ActivableButtonChild /\ DisabledByChild # <<>>) =>
    /\ out.tag = "button"
    /\ out.props["disabled"] = <<NotActive>>

\* Active, and the child renders Button with disabled true: the button is
\* not disabled.
C12_Witness ==
  /\ ActivableButtonChild
  /\ DisabledByChild = <<TRUE>>
  /\ acProps[1].active = <<TRUE>>
  /\ out.tag = "button"
  /\ out.props["disabled"] = <<FALSE>>

(***************************************************************************)
(* C13: the props Activable's child is called with have the members        *)
(* Button, track and style and no other, each the object that the bundle   *)
(* of that render of GenericButton holds, and the shared style is as the   *)
(* module made it.                                                         *)
(***************************************************************************)
C13_BundleForwarded ==
  received # <<>> =>
    /\ bundle # <<>> /\ refs # <<>>
    /\ DOMAIN received[1].props = {"Button", "track", "style"}
    /\ \A k \in {"Button", "track", "style"} :
         /\ received[1].props[k] = bundle[1][k]
         /\ received[1].refs[k] = refs[1][k]
    /\ received[1].props.style = style

\* Activable's child, a function that renders Button, has been called.
C13_Witness ==
  /\ ActivableButtonChild
  /\ received # <<>>
  /\ received[1].props.Button = bundle[1].Button
  /\ out.tag = "button"

(***************************************************************************)
(* C14: when Activable's child is not a function (text, a number, markup,  *)
(* null, undefined), the render ends in an error and leaves no rendered    *)
(* output; the child is never called.                                      *)
(***************************************************************************)
NotAFunction(children) == children = <<>> \/ children[1].kind = "node"

C14_NonFunctionChildFails ==
  (ActivableRendered /\ NotAFunction(acProps[1].children)) =>
    /\ thrown # <<>>
    /\ ~mounted
    /\ out = NoElement
    /\ root = <<>> /\ nested = <<>> /\ inner = <<>>
    /\ received = <<>>

\* Activable rendered with a text child: React rejects the element type.
C14_Witness ==
  /\ ActivableRendered
  /\ acProps[1].children = <<Node("Go")>>
  /\ thrown = <<"Invariant">>
  /\ out = NoElement


C16_ClickWithoutOnClickCompletes ==
  (ButtonRendered /\ Clicked /\ gbProps.onClick = <<>> /\ HandlerTracksOnClick) =>
    /\ Len(trace) = 1
    /\ trace[1].ev = "log"
    /\ ~result[1].threw

(***************************************************************************)
(* C17: the text stringify makes of a function's text is that text with    *)
(* every line break replaced by a space and every run of white space then  *)
(* replaced by one space.                                                  *)
(***************************************************************************)
LineBreaksToSpaces(s) ==
  [i \in 1..Len(s) |-> IF s[i] \in LineBreaks THEN "SP" ELSE s[i]]

C17_LineBreaksBecomeSpaces ==
  printed # <<>> => printed[1] = CollapseSpace(LineBreaksToSpaces(source))

(***************************************************************************)
(* C18 as stated: no member of the bundle of one render is the same object *)
(* as that member of the bundle of the render before it.                   *)
(***************************************************************************)
BundleMembers == {"Button", "track", "style"}

C18_NothingShared ==
  [][(RenderStep /\ refs # <<>>) =>
       \A k \in BundleMembers : refs'[1][k] # refs[1][k]]_vars

(***************************************************************************)
(* C18, amended: every render makes a new bundle object and a new Button,  *)
(* which no other render has; track and style are the objects the module   *)
(* made when it loaded, the same in every render.                          *)
(***************************************************************************)
C18_MadeByThisRender ==
  refs # <<>> =>
    /\ refs[1].pieces = nextId - IdsPerRender
    /\ refs[1].Button = nextId - IdsPerRender
    /\ refs[1].track = ModuleLevel
    /\ refs[1].style = ModuleLevel
    /\ bundle # <<>> => /\ bundle[1].Button.id = refs[1].Button
                        /\ bundle[1].track = TrackRef
                        /\ bundle[1].style = sharedStyle

C18_NextRender ==
  (RenderStep /\ refs # <<>>) =>
    /\ refs'[1].pieces # refs[1].pieces
    /\ refs'[1].Button # refs[1].Button
    /\ refs'[1].track = refs[1].track
    /\ refs'[1].style = refs[1].style

C18_OnlyButtonRebuilt == [](C18_MadeByThisRender) /\ [][C18_NextRender]_vars

\* A second render has given its bundle to a function child.
C18_Witness ==
  /\ nextId > 1 + IdsPerRender
  /\ bundle # <<>>
  /\ refs # <<>>
  /\ refs[1].Button > 1
  /\ refs[1].track = ModuleLevel

(***************************************************************************)
(* C19: a render changes none of its inputs: a function child that the     *)
(* caller has just made, and that has no displayName, has none after the   *)
(* render, and the shared style is as the module made it.                  *)
(***************************************************************************)
C19_RenderChangesNoInput ==
  (HasRendered /\ FunctionChild /\ gbProps.children[1].fresh) =>
    /\ displayName = <<>>
    /\ sharedStyle = style

(***************************************************************************)
(* C20: GenericButton with an onClick and a child that renders Button      *)
(* with style {...style, background: "blue"} and content "Go" gives one    *)
(* button with content "Go" and the shared style plus background "blue";   *)
(* a click in which onClick returns "X" logs once, then calls onClick, and *)
(* returns "X".                                                            *)
(***************************************************************************)
C20_Given ==
  /\ mounted
  /\ ~ActivableRendered
  /\ gbProps.children # <<>>
  /\ gbProps.children[1].kind = "button"
  /\ gbProps.children[1].content = "Go"
  /\ gbProps.children[1].given = Given("spread", <<>>, <<>>)
  /\ gbProps.onClick # <<>>
  /\ gbProps.style = <<>>
  /\ gbProps.disabled = <<>>

OnClickReturnedX ==
  /\ Clicked
  /\ \E i \in 1..Len(trace) :
       /\ trace[i].ev = "call"
       /\ trace[i].did = [threw |-> FALSE, val |-> "'X'"]

C20_BlueGoButton ==
  C20_Given =>
    /\ out.tag = "button"
    /\ out.props["children"] = <<"Go">>
    /\ out.props["style"] = <<[style EXCEPT !["background"] = "blue"]>>
    /\ out.props["disabled"] = <<>>
    /\ OnClickReturnedX =>
         /\ Len(trace) = 2
         /\ trace[1].ev = "log"
         /\ trace[1].text = stringify(gbProps.onClick[1])
         /\ trace[2].ev = "call"
         /\ trace[2].cb = gbProps.onClick[1].id
         /\ result = <<[threw |-> FALSE, val |-> "'X'"]>>

\* The button of the scenario has been clicked and "X" came back.
C20_Witness ==
  /\ C20_Given
  /\ OnClickReturnedX
  /\ result = <<[threw |-> FALSE, val |-> "'X'"]>>
  /\ out.props["children"] = <<"Go">>


(***************************************************************************)
(* What the demo shows.                                                    *)
(***************************************************************************)
Shown(pos) == tree[pos].out

DisabledAt(pos) == Shown(pos).props["disabled"]

Odd(n) == n % 2 = 1

\* The renders so far, the first one included.
AppRenders == AppStamp - 1

(***************************************************************************)
(* C21: in App active starts false and every click on the toggle button    *)
(* flips it: with the queued updates applied, active is true exactly when  *)
(* the number of clicks is odd.  The buttons of Simple and CloseModal are  *)
(* disabled exactly when the active App rendered with is false, and those  *)
(* of ClickMe, the image component and the toggle never are.               *)
(***************************************************************************)
C21_ToggleDrivesDisabled ==
  /\ ~appMounted => ~active
  /\ ApplyUpdates(pending, active) = Odd(clicks)
  /\ appMounted =>
       /\ Shown("Simple").tag = "button"
       /\ Shown("CloseModal").tag = "button"
       /\ DisabledAt("Simple") = <<~active>>
       /\ DisabledAt("CloseModal") = <<~active>>
       /\ \A pos \in {"Toggle", "ClickMe", "Loader"} : DisabledAt(pos) = <<>>

\* Three clicks, all rendered: active, and Simple and CloseModal enabled.
C21_Witness ==
  /\ appMounted
  /\ clicks = 3
  /\ pending = <<>>
  /\ active
  /\ DisabledAt("Simple") = <<FALSE>>
  /\ DisabledAt("CloseModal") = <<FALSE>>

(***************************************************************************)
(* C22: the image component shows the text placeholder exactly when        *)
(* loading is true and the image input exactly when it is false; no Button *)
(* is rendered under it, and the three handlers of the image input are     *)
(* functions made by track.                                                *)
(***************************************************************************)
Placeholder == IF loaderKind = "Image" THEN "span" ELSE "p"

C22_PlaceholderOrInput ==
  appMounted =>
    /\ tree["Loader"].thrown = <<>>
    /\ tree["Loader"].nested = <<>>
    /\ loading =>
         /\ Shown("Loader").tag = Placeholder
         /\ Shown("Loader").props["children"] = <<"Loading image...">>
         /\ \A h \in HandlerNames : ~Has(Shown("Loader").props, h)
    /\ ~loading =>
         /\ Shown("Loader").tag = "input"
         /\ \A h \in HandlerNames :
              /\ Has(Shown("Loader").props, h)
              /\ Shown("Loader").props[h][1].kind = "tracked"
              /\ \E k \in 1..InputTrackCalls :
                   Shown("Loader").props[h] = <<tree["Loader"].root[1].hooks[k].fn>>

\* The image has loaded and the image input is shown.
C22_Witness ==
  /\ appMounted
  /\ ~loading
  /\ Shown("Loader").tag = "input"
  /\ Shown("Loader").props["onMouseOver"][1].kind = "tracked"

(***************************************************************************)
(* C23: loading is true until the image component has rendered after a     *)
(* load notification; it changes only then, only from true to false, and   *)
(* once false it stays false.                                              *)
(***************************************************************************)
C23_TrueFromMount == (listeners = 0 \/ AppRenders <= 1) => loading

C23_OnlyOnLoad == (loading' # loading) => (loading /\ ~loading' /\ loadPending)

C23_StaysFalse == ~loading => ~loading'

C23_OneShot ==
  /\ [](C23_TrueFromMount)
  /\ [][C23_OnlyOnLoad /\ C23_StaysFalse]_vars

\* Loaded, then a further load notification and a render for it.
C23_Witness ==
  /\ ~loading
  /\ ~loadPending
  /\ AppRenders = 3
  /\ clicks = 0

(***************************************************************************)
(* C24: for every active, Simple and CloseModal written with Activable     *)
(* render a button with the same content, style, disabled and click        *)
(* behaviour as the versions written with GenericButton that pass          *)
(* disabled = !active to Button.                                           *)
(***************************************************************************)
SameClick(f, g) ==
  \A params \in ArgLists, o \in Outcomes : Apply(f, params, o) = Apply(g, params, o)

SameButton(a, b) ==
  /\ a.tag = "button" /\ b.tag = "button"
  /\ \A k \in {"children", "style", "disabled"} : a.props[k] = b.props[k]
  /\ \A h \in HandlerNames :
       /\ Has(a.props, h) <=> Has(b.props, h)
       /\ Has(a.props, h) => SameClick(a.props[h][1], b.props[h][1])

C24_ActivableSameAsDirect ==
  appMounted =>
    /\ SameButton(Shown("Simple"), Shown("SimpleDirect"))
    /\ SameButton(Shown("CloseModal"), Shown("CloseModalDirect"))

\* Both versions rendered with active true, after one with active false.
C24_Witness ==
  /\ appMounted
  /\ active
  /\ AppRenders >= 2
  /\ DisabledAt("Simple") = <<FALSE>>
  /\ DisabledAt("SimpleDirect") = <<FALSE>>
  /\ Shown("CloseModalDirect").props["children"] = <<"Close Modal">>

(***************************************************************************)
(* C25: an instance that stays mounted calls the same hooks in the same    *)
(* order in every render: the components with hooks of their own, and the  *)
(* instances below each GenericButton, whose hooks are the useCallback of  *)
(* track.  The track calls of the image input are never made in an         *)
(* instance that has rendered the placeholder.                             *)
(***************************************************************************)
SameHooks(old, new) ==
  (old # <<>> /\ new # <<>> /\ new[1].type = old[1].type) =>
    Len(new[1].hooks) = Len(old[1].hooks)

C25_HookOrderKept ==
  /\ \A comp \in Components :
       hookCalls[comp] # <<>> => hookCalls'[comp] = hookCalls[comp]
  /\ \A pos \in Positions :
       /\ SameHooks(tree[pos].root, tree'[pos].root)
       /\ (tree[pos].root # <<>> /\ tree'[pos].root # <<>>
             /\ tree'[pos].root[1].type = tree[pos].root[1].type) =>
            /\ SameHooks(tree[pos].inner, tree'[pos].inner)
            /\ SameHooks(tree[pos].nested, tree'[pos].nested)

C25_TrackOnlyInNewInstance ==
  (loading /\ ~loading' /\ tree["Loader"].root # <<>>) =>
    /\ tree["Loader"].root[1].hooks = <<>>
    /\ tree'["Loader"].root[1].type # tree["Loader"].root[1].type
    /\ Len(tree'["Loader"].root[1].hooks) = InputTrackCalls

C25_HookOrder == [][C25_HookOrderKept /\ C25_TrackOnlyInNewInstance]_vars

\* The image input, with its three track calls, after the placeholder and
\* a render of App.
C25_Witness ==
  /\ appMounted
  /\ ~loading
  /\ clicks > 0
  /\ AppRenders = 3
  /\ Len(tree["Loader"].root[1].hooks) = InputTrackCalls
  /\ hookCalls["Loader"] = HooksOf("Loader")

(***************************************************************************)
(* C26: the render that follows k clicks on the toggle button leaves       *)
(* active flipped k times: negated for odd k, as it was for even k.        *)
(***************************************************************************)
C26_Flush ==
  (pending # <<>> /\ pending' = <<>>) =>
    active' = (IF Odd(Len(pending)) THEN ~active ELSE active)

C26_Queued ==
  (clicks' = clicks + 1) => Len(pending') = Len(pending) + 1

C26_NoToggleLost == [][C26_Flush /\ C26_Queued]_vars

\* Two clicks and then one render: active is false again.
C26_Witness ==
  /\ appMounted
  /\ clicks = 2
  /\ pending = <<>>
  /\ AppRenders = 2
  /\ ~active

(***************************************************************************)
(* C27: the style object of GenericButton.js is in every state of the      *)
(* demo as the module made it.                                             *)
(***************************************************************************)
C27_SharedStyleKept ==
  /\ sharedStyle = style
  /\ \A pos \in Positions : tree[pos].base = style

\* Every consumer has made its style from the shared one, three times.
C27_Witness ==
  /\ appMounted
  /\ AppRenders = 3
  /\ ~loading
  /\ Shown("Simple").props["style"][1]["background"] = "green"
  /\ Shown("ClickMe").props["style"][1]["background"] = "blue"
  /\ Shown("CloseModal").props["style"][1]["background"] = "orange"
  /\ Shown("Loader").props["style"] # <<style>>
  /\ sharedStyle = style

(***************************************************************************)
(* C30: the button of CloseModal has the shared style with fontSize        *)
(* "10px", half of the shared "20px", and background "orange", whatever    *)
(* active is.                                                              *)
(***************************************************************************)
C30_HalfFontSize ==
  appMounted =>
    /\ Shown("CloseModal").tag = "button"
    /\ Shown("CloseModal").props["style"] =
         <<[k \in StyleKeys |->
              CASE k = "fontSize" -> "10px"
                [] k = "background" -> "orange"
                [] OTHER -> style[k]]>>
    /\ style["fontSize"] = "20px"

\* CloseModal rendered with active true.
C30_Witness ==
  /\ appMounted
  /\ active
  /\ DisabledAt("CloseModal") = <<FALSE>>
  /\ Shown("CloseModal").props["style"][1]["fontSize"] = "10px"


(***************************************************************************)
(* C28: the image component creates one image and registers one load       *)
(* listener, in its first effect and never again, however often it         *)
(* renders; no listener is removed; and after a load notification the      *)
(* image input is rendered.                                                *)
(***************************************************************************)
C28_OneImage ==
  /\ images <= 1
  /\ listeners = images
  /\ effectRan <=> images = 1
  /\ effectRan => ~effectDue
  /\ (appMounted /\ ~effectRan) => effectDue

C28_NeverRemoved == listeners' >= listeners /\ images' >= images

C28_Delivered == loadPending /\ AppStamp <= MaxAppRenders

C28_InputShown == ~loading /\ Shown("Loader").tag = "input"

C28_OneLoadOneListener ==
  /\ [](C28_OneImage)
  /\ [][C28_NeverRemoved]_vars
  /\ (C28_Delivered ~> C28_InputShown)

\* One image and one listener after three renders, the image input shown.
C28_Witness ==
  /\ appMounted
  /\ AppRenders = 3
  /\ clicks > 0
  /\ images = 1
  /\ listeners = 1
  /\ C28_InputShown

(***************************************************************************)
(* C29: with the GenericButton that memoizes Button with no dependency, a  *)
(* click on the rendered button logs and calls the onClick of the latest   *)
(* render, also after a render with another onClick.                       *)
(***************************************************************************)
C29_ClickCallsLatestOnClick ==
  (ButtonRendered /\ Clicked /\ memoHooks # <<>>
     /\ memoHooks[1].fn.onClick.kind = "callback"
     /\ gbProps.onClick # <<>>
     /\ Has(out.props, "onClick") /\ out.props["onClick"][1].kind = "tracked") =>
    /\ Len(trace) = 2
    /\ trace[1].ev = "log"
    /\ trace[1].text = stringify(gbProps.onClick[1])
    /\ trace[2].ev = "call"
    /\ trace[2].cb = gbProps.onClick[1].id

====
